---- MODULE Spec2Model ----
(***************************************************************************)
(* Model of diffprivlib.models.standard_scaler: the differentially private *)
(* StandardScaler and its incremental mean / variance merge                 *)
(* (_incremental_mean_and_var).                                             *)
(*                                                                         *)
(* Floating-point numbers are modelled as exact rationals extended with    *)
(* the IEEE specials nan, +inf and -inf; rounding error is not modelled.   *)
(* The privatized statistic source (diffprivlib.tools.nanmean / nanvar) is *)
(* modelled in its noise-free limit.                                       *)
(***************************************************************************)
EXTENDS Integers, Sequences, FiniteSets, TLC

(* ------------------------------ bounds --------------------------------- *)
\* number of features (columns) of every batch
NFeatures == 2
\* largest number of samples (rows) in one batch
MaxRows == 2
\* cell values are 0..MaxVal, or missing (nan)
MaxVal == 1
\* number of partial_fit calls explored on one estimator
MaxCalls == 2
\* number of partial_fit calls explored when every batch has one sample
MaxCallsSingle == 3

Features == 1..NFeatures

(* --------------------- floating point (np.float64) --------------------- *)
Abs(x) == IF x < 0 THEN -x ELSE x

RECURSIVE Gcd(_, _)
Gcd(a, b) == IF b = 0 THEN a ELSE Gcd(b, a % b)

\* a finite number n/d in lowest terms, d > 0
F(n, d) ==
    LET g == Gcd(Abs(n), Abs(d))
        s == IF d < 0 THEN -1 ELSE 1
    IN  [k |-> "num", n |-> (s * n) \div g, d |-> (s * d) \div g]

NaN == [k |-> "nan", n |-> 0, d |-> 1]
\* +inf (s = 1) or -inf (s = -1)
Inf(s) == [k |-> "inf", n |-> s, d |-> 0]

IsNaN(a) == a.k = "nan"
IsNum(a) == a.k = "num"
IsZero(a) == a.k = "num" /\ a.n = 0
Sign(a) == IF a.n > 0 THEN 1 ELSE IF a.n < 0 THEN -1 ELSE 0

\* a + b
FAdd(a, b) ==
    IF IsNaN(a) \/ IsNaN(b) THEN NaN
    ELSE IF a.k = "inf" /\ b.k = "inf" THEN (IF a.n = b.n THEN a ELSE NaN)
    ELSE IF a.k = "inf" THEN a
    ELSE IF b.k = "inf" THEN b
    ELSE F(a.n * b.d + b.n * a.d, a.d * b.d)

\* a * b
FMul(a, b) ==
    IF IsNaN(a) \/ IsNaN(b) THEN NaN
    ELSE IF a.k = "inf" \/ b.k = "inf"
         THEN (IF Sign(a) * Sign(b) = 0 THEN NaN ELSE Inf(Sign(a) * Sign(b)))
    ELSE F(a.n * b.n, a.d * b.d)

FNeg(a) == IF IsNaN(a) THEN NaN ELSE [a EXCEPT !.n = -a.n]

\* a - b
FSub(a, b) == FAdd(a, FNeg(b))

\* a / b with numpy's semantics for a zero divisor (x/0 = +-inf, 0/0 = nan)
FDiv(a, b) ==
    IF IsNaN(a) \/ IsNaN(b) THEN NaN
    ELSE IF b.k = "inf" THEN (IF a.k = "inf" THEN NaN ELSE F(0, 1))
    ELSE IF a.k = "inf" THEN Inf(Sign(a) * (IF Sign(b) < 0 THEN -1 ELSE 1))
    ELSE IF b.n = 0 THEN (IF a.n = 0 THEN NaN ELSE Inf(Sign(a)))
    ELSE F(a.n * b.d, a.d * b.n)

\* integer square root, or -1 when n is no perfect square
ISqrt(n) == IF \E r \in 0..n : r * r = n THEN CHOOSE r \in 0..n : r * r = n ELSE -1

\* np.sqrt: exact on perfect squares, otherwise the symbolic root of n/d
FSqrt(a) ==
    IF IsNaN(a) THEN NaN
    ELSE IF a.k = "inf" THEN (IF a.n > 0 THEN a ELSE NaN)
    ELSE IF a.n < 0 THEN NaN
    ELSE IF ISqrt(a.n) >= 0 /\ ISqrt(a.d) >= 0 THEN F(ISqrt(a.n), ISqrt(a.d))
    ELSE [k |-> "sqrt", n |-> a.n, d |-> a.d]

(* ------------------------------ batches -------------------------------- *)
\* a cell of a batch: a finite value or a missing entry (nan)
Cells == {F(v, 1) : v \in 0..MaxVal} \cup {NaN}
Rows == [Features -> Cells]
\* the batches check_array accepts: at least one sample, finite or nan cells
Batches == UNION {[1..r -> Rows] : r \in 1..MaxRows}
\* the batches of one sample
SingleBatches == [1..1 -> Rows]
\* batches check_array rejects: no sample, or an infinite cell
InvalidBatches == {<< >>, <<[f \in Features |-> Inf(1)]>>}

\* sklearn.utils.check_array(X, force_all_finite='allow-nan'): TRUE iff accepted
check_array(X) ==
    /\ Len(X) >= 1
    /\ \A i \in 1..Len(X) : \A f \in Features : X[i][f].k \in {"num", "nan"}

\* np.sum(~np.isnan(X), axis=0)[f]
new_sample_count(X, f) == Cardinality({i \in 1..Len(X) : ~IsNaN(X[i][f])})

(* ------------- privatized statistic source, noise-free limit ----------- *)
RECURSIVE ColSum(_, _, _)
\* sum of the non-missing entries of column f among the first i rows
ColSum(X, f, i) ==
    IF i = 0 THEN F(0, 1)
    ELSE FAdd(ColSum(X, f, i - 1), IF IsNaN(X[i][f]) THEN F(0, 1) ELSE X[i][f])

\* mean of the non-missing entries of column f; nan (0/0) when there is none
ColMean(X, f) == FDiv(ColSum(X, f, Len(X)), F(new_sample_count(X, f), 1))

RECURSIVE ColSqDev(_, _, _, _)
\* sum of squared deviations from m of the non-missing entries of column f
ColSqDev(X, f, m, i) ==
    IF i = 0 THEN F(0, 1)
    ELSE FAdd(ColSqDev(X, f, m, i - 1),
              IF IsNaN(X[i][f]) THEN F(0, 1)
              ELSE FMul(FSub(X[i][f], m), FSub(X[i][f], m)))

\* population variance of the non-missing entries of column f; nan if none
ColVar(X, f) ==
    IF new_sample_count(X, f) = 0 THEN NaN
    ELSE FDiv(ColSqDev(X, f, ColMean(X, f), Len(X)), F(new_sample_count(X, f), 1))

\* diffprivlib.tools.nanmean(X, epsilon=epsilon, axis=0, range=range):
\* raises when range is absent, otherwise the per-feature mean
nanmean(X, epsilon, range) ==
    [raised |-> range = "None", v |-> [f \in Features |-> ColMean(X, f)]]

\* diffprivlib.tools.nanvar(X, epsilon=epsilon, axis=0, range=range)
nanvar(X, epsilon, range) ==
    [raised |-> range = "None", v |-> [f \in Features |-> ColVar(X, f)]]

(* ---------------------- _incremental_mean_and_var ---------------------- *)
\* attribute values: t is the representation, v the per-feature entries
\* (one entry for a scalar, none for None or an attribute that is not set)
Absent == [t |-> "absent", v |-> << >>]
None == [t |-> "None", v |-> << >>]
Scalar(x) == [t |-> "scalar", v |-> <<x>>]
Vector(xs) == [t |-> "vector", v |-> xs]

\* entry f of a scalar broadcast against a vector, or of a vector
At(a, f) == IF a.t = "scalar" THEN a.v[1] ELSE a.v[f]

\* last_sum = last_mean * last_sample_count
last_sum(last_mean, last_sample_count, f) ==
    FMul(At(last_mean, f), F(last_sample_count[f], 1))

\* new_sum = new_mean * new_sample_count
new_sum(new_mean, X, f) == FMul(new_mean[f], F(new_sample_count(X, f), 1))

\* updated_sample_count = last_sample_count + new_sample_count
updated_sample_count(last_sample_count, X, f) ==
    last_sample_count[f] + new_sample_count(X, f)

\* variant of updated_mean: a zero total count yields 0 instead of 0/0
updated_mean_guarded(lsum, nsum, ucount) ==
    IF ucount = 0 THEN F(0, 1) ELSE FDiv(FAdd(lsum, nsum), F(ucount, 1))

\* updated_mean = (last_sum + new_sum) / updated_sample_count
updated_mean(lsum, nsum, ucount) == FDiv(FAdd(lsum, nsum), F(ucount, 1))

\* variant of updated_unnormalized_variance: the entries of zero prior count
\* are not overwritten
updated_unnormalized_variance_unmasked(last_unnorm, new_unnorm, lcount, ncount, lsum, nsum) ==
    LET last_over_new_count == FDiv(F(lcount, 1), F(ncount, 1))
        diff == FSub(FDiv(lsum, last_over_new_count), nsum)
    IN  FAdd(FAdd(last_unnorm, new_unnorm),
             FMul(FDiv(last_over_new_count, F(lcount + ncount, 1)),
                  FMul(diff, diff)))

\* the Chan-Golub-LeVeque merge of the unnormalized variances of one feature,
\* with the entries of zero prior count overwritten by the batch's own
updated_unnormalized_variance(last_unnorm, new_unnorm, lcount, ncount, lsum, nsum) ==
    LET last_over_new_count == FDiv(F(lcount, 1), F(ncount, 1))
        diff == FSub(FDiv(lsum, last_over_new_count), nsum)
        merged == FAdd(FAdd(last_unnorm, new_unnorm),
                       FMul(FDiv(last_over_new_count, F(lcount + ncount, 1)),
                            FMul(diff, diff)))
    IN  IF lcount = 0 THEN new_unnorm ELSE merged

\* updated_variance of feature f, given the batch's privatized mean and variance
updated_variance(X, new_mean, new_var, last_mean, last_variance, last_sample_count, f) ==
    LET lcount == last_sample_count[f]
        ncount == new_sample_count(X, f)
        new_unnormalized_variance == FMul(new_var[f], F(ncount, 1))
        last_unnormalized_variance == FMul(At(last_variance, f), F(lcount, 1))
    IN  FDiv(updated_unnormalized_variance(
                 last_unnormalized_variance, new_unnormalized_variance, lcount, ncount,
                 last_sum(last_mean, last_sample_count, f), new_sum(new_mean, X, f)),
             F(lcount + ncount, 1))

\* variant of _incremental_mean_and_var: nanvar is invoked before last_variance
\* is tested for None
_incremental_mean_and_var_eager(X, epsilon, range, last_mean, last_variance, last_sample_count) ==
    LET m == nanmean(X, epsilon, range)
        with_var == last_variance.t # "None"
        w == nanvar(X, epsilon, range)
        count == [f \in Features |-> updated_sample_count(last_sample_count, X, f)]
        mean == [f \in Features |->
                    updated_mean(last_sum(last_mean, last_sample_count, f),
                                 new_sum(m.v, X, f), count[f])]
        var == [f \in Features |->
                    updated_variance(X, m.v, w.v, last_mean, last_variance,
                                     last_sample_count, f)]
    IN  IF m.raised
        THEN [raised |-> TRUE, mean |-> last_mean, var |-> last_variance,
              count |-> last_sample_count, mean_eps |-> <<epsilon>>, var_eps |-> << >>]
        ELSE IF w.raised
        THEN [raised |-> TRUE, mean |-> last_mean, var |-> last_variance,
              count |-> last_sample_count, mean_eps |-> <<epsilon>>,
              var_eps |-> <<epsilon>>]
        ELSE IF ~with_var
        THEN [raised |-> FALSE, mean |-> Vector(mean), var |-> None,
              count |-> count, mean_eps |-> <<epsilon>>, var_eps |-> <<epsilon>>]
        ELSE [raised |-> FALSE, mean |-> Vector(mean), var |-> Vector(var),
              count |-> count, mean_eps |-> <<epsilon>>, var_eps |-> <<epsilon>>]

\* _incremental_mean_and_var(X, epsilon, range, last_mean, last_variance,
\* last_sample_count): raised tells whether the statistic source raised;
\* mean_eps and var_eps list the epsilon of every nanmean / nanvar invocation
_incremental_mean_and_var(X, epsilon, range, last_mean, last_variance, last_sample_count) ==
    LET m == nanmean(X, epsilon, range)
        with_var == last_variance.t # "None"
        w == nanvar(X, epsilon, range)
        count == [f \in Features |-> updated_sample_count(last_sample_count, X, f)]
        mean == [f \in Features |->
                    updated_mean(last_sum(last_mean, last_sample_count, f),
                                 new_sum(m.v, X, f), count[f])]
        var == [f \in Features |->
                    updated_variance(X, m.v, w.v, last_mean, last_variance,
                                     last_sample_count, f)]
    IN  IF m.raised
        THEN [raised |-> TRUE, mean |-> last_mean, var |-> last_variance,
              count |-> last_sample_count, mean_eps |-> <<epsilon>>, var_eps |-> << >>]
        ELSE IF ~with_var
        THEN [raised |-> FALSE, mean |-> Vector(mean), var |-> None,
              count |-> count, mean_eps |-> <<epsilon>>, var_eps |-> << >>]
        ELSE IF w.raised
        THEN [raised |-> TRUE, mean |-> last_mean, var |-> last_variance,
              count |-> last_sample_count, mean_eps |-> <<epsilon>>,
              var_eps |-> <<epsilon>>]
        ELSE [raised |-> FALSE, mean |-> Vector(mean), var |-> Vector(var),
              count |-> count, mean_eps |-> <<epsilon>>, var_eps |-> <<epsilon>>]

(* --------------------------- StandardScaler ---------------------------- *)
\* truth value of a with_std setting ("True", "False" or "None")
Truthy(b) == b = "True"

\* variant of epsilon_0: the budget is never split
epsilon_0_unsplit(self) == self.epsilon

\* epsilon_0 = self.epsilon if self.with_std is None else self.epsilon / 2
epsilon_0(self) ==
    IF self.with_std = "None" THEN self.epsilon ELSE FDiv(self.epsilon, F(2, 1))

\* n_samples_seen_ as a vector: a scalar is repeated per feature, a count that
\* is not set yet starts at zero
count_to_vector(n) ==
    IF n.t = "scalar" THEN Vector([f \in Features |-> n.v[1]])
    ELSE IF n.t = "absent" THEN Vector([f \in Features |-> 0])
    ELSE n

\* variant of first_pass: var_ starts at .0 whatever with_std is
first_pass_always_var(self) ==
    IF self.scale_.t = "absent"
    THEN [self EXCEPT !.mean_ = Scalar(F(0, 1)), !.var_ = Scalar(F(0, 1))]
    ELSE self

\* first pass (scale_ not set yet): mean_ = .0 and var_ = .0 or None
first_pass(self) ==
    IF self.scale_.t = "absent"
    THEN [self EXCEPT !.mean_ = Scalar(F(0, 1)),
                      !.var_ = IF Truthy(self.with_std) THEN Scalar(F(0, 1)) ELSE None]
    ELSE self

\* the writes partial_fit makes before it computes any statistic
prepare(self) ==
    first_pass([self EXCEPT !.n_samples_seen_ = count_to_vector(self.n_samples_seen_)])

\* n_samples_seen_ reduced to an integer if np.ptp(n_samples_seen_) == 0
collapse_count(n) ==
    IF \A f \in Features : n.v[f] = n.v[1] THEN [t |-> "scalar", v |-> <<n.v[1]>>] ELSE n

\* _handle_zeros_in_scale(np.sqrt(var_)): zero entries are replaced by 1
handle_zeros_in_scale(var) ==
    Vector([f \in Features |->
               IF IsZero(FSqrt(var.v[f])) THEN F(1, 1) ELSE FSqrt(var.v[f])])

\* scale_ after the update
derive_scale(self) ==
    IF Truthy(self.with_std) THEN handle_zeros_in_scale(self.var_) ELSE None

\* the tail of partial_fit: collapse the count, derive scale_
finish(self) ==
    LET s == [self EXCEPT !.n_samples_seen_ = collapse_count(self.n_samples_seen_)]
    IN  [s EXCEPT !.scale_ = derive_scale(s)]

\* variant of fit_checked: the count-only branch advances the count by the
\* number of samples, missing entries included
fit_checked_row_count(self, X) ==
    LET p == prepare(self)
        r == _incremental_mean_and_var(X, epsilon_0(self), self.range, p.mean_,
                                       p.var_, p.n_samples_seen_.v)
    IN  IF ~self.with_mean /\ ~Truthy(self.with_std)
        THEN [self |-> finish([p EXCEPT
                  !.mean_ = None, !.var_ = None,
                  !.n_samples_seen_ = Vector([f \in Features |->
                        p.n_samples_seen_.v[f] + Len(X)])]),
              outcome |-> "ok", mean_eps |-> << >>, var_eps |-> << >>]
        ELSE IF r.raised
        THEN [self |-> p, outcome |-> "source_error",
              mean_eps |-> r.mean_eps, var_eps |-> r.var_eps]
        ELSE [self |-> finish([p EXCEPT !.mean_ = r.mean, !.var_ = r.var,
                                        !.n_samples_seen_ = Vector(r.count)]),
              outcome |-> "ok", mean_eps |-> r.mean_eps, var_eps |-> r.var_eps]

\* variant of fit_checked: the count is advanced before the statistic source
\* is called, so a call that fails there leaves it advanced
fit_checked_count_first(self, X) ==
    LET p == prepare(self)
        r == _incremental_mean_and_var(X, epsilon_0(self), self.range, p.mean_,
                                       p.var_, p.n_samples_seen_.v)
    IN  IF ~self.with_mean /\ ~Truthy(self.with_std)
        THEN [self |-> finish([p EXCEPT
                  !.mean_ = None, !.var_ = None,
                  !.n_samples_seen_ = Vector([f \in Features |->
                        p.n_samples_seen_.v[f] + (Len(X) - (Len(X) - new_sample_count(X, f)))])]),
              outcome |-> "ok", mean_eps |-> << >>, var_eps |-> << >>]
        ELSE IF r.raised
        THEN [self |-> [p EXCEPT !.n_samples_seen_ = Vector([f \in Features |->
                           p.n_samples_seen_.v[f] + new_sample_count(X, f)])],
              outcome |-> "source_error",
              mean_eps |-> r.mean_eps, var_eps |-> r.var_eps]
        ELSE [self |-> finish([p EXCEPT !.mean_ = r.mean, !.var_ = r.var,
                                        !.n_samples_seen_ = Vector(r.count)]),
              outcome |-> "ok", mean_eps |-> r.mean_eps, var_eps |-> r.var_eps]

\* partial_fit once X passed check_array
fit_checked(self, X) ==
    LET p == prepare(self)
        r == _incremental_mean_and_var(X, epsilon_0(self), self.range, p.mean_,
                                       p.var_, p.n_samples_seen_.v)
    IN  IF ~self.with_mean /\ ~Truthy(self.with_std)
        THEN [self |-> finish([p EXCEPT
                  !.mean_ = None, !.var_ = None,
                  !.n_samples_seen_ = Vector([f \in Features |->
                        p.n_samples_seen_.v[f] + (Len(X) - (Len(X) - new_sample_count(X, f)))])]),
              outcome |-> "ok", mean_eps |-> << >>, var_eps |-> << >>]
        ELSE IF r.raised
        THEN [self |-> p, outcome |-> "source_error",
              mean_eps |-> r.mean_eps, var_eps |-> r.var_eps]
        ELSE [self |-> finish([p EXCEPT !.mean_ = r.mean, !.var_ = r.var,
                                        !.n_samples_seen_ = Vector(r.count)]),
              outcome |-> "ok", mean_eps |-> r.mean_eps, var_eps |-> r.var_eps]

\* variant of partial_fit: check_array runs after the count and first-pass writes
partial_fit_late_check(self, X) ==
    IF ~check_array(X)
    THEN [self |-> prepare(self), outcome |-> "invalid", mean_eps |-> << >>,
          var_eps |-> << >>]
    ELSE fit_checked(self, X)

\* StandardScaler.partial_fit(X): the estimator after the call, how the call
\* ended, and the epsilon of every invocation of the statistic source
partial_fit(self, X) ==
    IF ~check_array(X)
    THEN [self |-> self, outcome |-> "invalid", mean_eps |-> << >>, var_eps |-> << >>]
    ELSE fit_checked(self, X)

(* ---------------------------- state machine ---------------------------- *)
VARIABLES
    epsilon,          \* self.epsilon
    range,            \* self.range: "None" or "set"
    with_mean,        \* self.with_mean
    with_std,         \* self.with_std: "True", "False" or "None"
    mean_,            \* self.mean_
    var_,             \* self.var_
    scale_,           \* self.scale_
    n_samples_seen_,  \* self.n_samples_seen_
    history,          \* the batches of the calls that returned, in order
    call,             \* the latest partial_fit call: outcome and invocations
    ncalls,           \* number of partial_fit calls made
    source_errors     \* per call that failed inside the statistic source, in order:
                      \* the number of calls that had returned before it

config == <<epsilon, with_mean, with_std>>
attrs == <<mean_, var_, scale_, n_samples_seen_>>
vars == <<epsilon, range, with_mean, with_std, mean_, var_, scale_, n_samples_seen_,
          history, call, ncalls, source_errors>>

\* the estimator as one record
Self ==
    [epsilon |-> epsilon, range |-> range, with_mean |-> with_mean,
     with_std |-> with_std, mean_ |-> mean_, var_ |-> var_, scale_ |-> scale_,
     n_samples_seen_ |-> n_samples_seen_]

\* an estimator right after __init__: no fitted attribute is set
Fresh(e, r, wm, ws) ==
    [epsilon |-> e, range |-> r, with_mean |-> wm, with_std |-> ws,
     mean_ |-> Absent, var_ |-> Absent, scale_ |-> Absent, n_samples_seen_ |-> Absent]

Epsilons == {F(1, 1), F(3, 1)}
Ranges == {"None", "set"}
WithStd == {"True", "False", "None"}

NoCall == [outcome |-> "none", mean_eps |-> << >>, var_eps |-> << >>]

Init ==
    /\ epsilon \in Epsilons
    /\ range \in Ranges
    /\ with_mean \in BOOLEAN
    /\ with_std \in WithStd
    /\ mean_ = Absent
    /\ var_ = Absent
    /\ scale_ = Absent
    /\ n_samples_seen_ = Absent
    /\ history = << >>
    /\ call = NoCall
    /\ ncalls = 0
    /\ source_errors = << >>

PartialFit ==
    /\ ncalls < MaxCalls
    /\ \E X \in Batches \cup InvalidBatches :
          \E r \in {partial_fit(Self, X)} :
              /\ mean_' = r.self.mean_
              /\ var_' = r.self.var_
              /\ scale_' = r.self.scale_
              /\ n_samples_seen_' = r.self.n_samples_seen_
              /\ history' = IF r.outcome = "ok" THEN Append(history, X) ELSE history
              /\ call' = [outcome |-> r.outcome, mean_eps |-> r.mean_eps,
                          var_eps |-> r.var_eps]
              /\ source_errors' = IF r.outcome = "source_error"
                                   THEN Append(source_errors, Len(history))
                                   ELSE source_errors
    /\ ncalls' = ncalls + 1
    /\ UNCHANGED <<epsilon, range, with_mean, with_std>>

\* set_params(range=r), inherited from the sklearn estimator base
SetRange ==
    /\ \E r \in Ranges : r # range /\ range' = r
    /\ UNCHANGED <<epsilon, with_mean, with_std, mean_, var_, scale_, n_samples_seen_,
                   history, call, ncalls, source_errors>>

Next == PartialFit \/ SetRange

Spec == Init /\ [][Next]_vars

\* partial_fit on batches of one sample, over a longer run of calls
PartialFitSingle ==
    /\ ncalls < MaxCallsSingle
    /\ \E X \in SingleBatches \cup InvalidBatches :
          \E r \in {partial_fit(Self, X)} :
              /\ mean_' = r.self.mean_
              /\ var_' = r.self.var_
              /\ scale_' = r.self.scale_
              /\ n_samples_seen_' = r.self.n_samples_seen_
              /\ history' = IF r.outcome = "ok" THEN Append(history, X) ELSE history
              /\ call' = [outcome |-> r.outcome, mean_eps |-> r.mean_eps,
                          var_eps |-> r.var_eps]
              /\ source_errors' = IF r.outcome = "source_error"
                                   THEN Append(source_errors, Len(history))
                                   ELSE source_errors
    /\ ncalls' = ncalls + 1
    /\ UNCHANGED <<epsilon, range, with_mean, with_std>>

NextSingle == PartialFitSingle \/ SetRange

SpecSingle == Init /\ [][NextSingle]_vars

(* ------------------------- reference quantities ------------------------ *)
RECURSIVE Flatten(_)
\* the rows of a sequence of batches, as one dataset
Flatten(h) ==
    IF Len(h) = 0 THEN << >>
    ELSE Flatten(SubSeq(h, 1, Len(h) - 1)) \o h[Len(h)]

\* every sample of every batch a returned partial_fit call has processed
Data == Flatten(history)

\* the cumulative number of non-missing entries of feature f
SeenCount(f) == new_sample_count(Data, f)

\* entry f of n_samples_seen_, scalar or vector
CountAt(f) == IF n_samples_seen_.t = "scalar" THEN n_samples_seen_.v[1]
              ELSE n_samples_seen_.v[f]

\* the statistic path of partial_fit (mean or variance tracking requested)
StatPath == with_mean \/ Truthy(with_std)

\* every call made so far returned normally (no rejected batch, no error)
AllReturned == ncalls = Len(history)

RECURSIVE FitAll(_, _)
\* the estimator after partial_fit on each batch of Xs in order
FitAll(self, Xs) ==
    IF Len(Xs) = 0 THEN self
    ELSE FitAll(partial_fit(self, Head(Xs)).self, Tail(Xs))

(* -------------------------------- claims ------------------------------- *)
\* C1: with an exact statistic source, after partial_fit on the batches of any
\* partition of a dataset, in order, on a fresh estimator, mean_, var_ and
\* n_samples_seen_ equal the per-feature mean, population variance and
\* non-missing count of the whole dataset.
C1_PartitionEqualsWhole ==
    (StatPath /\ AllReturned /\ ncalls >= 1) =>
        \A f \in Features :
            /\ CountAt(f) = SeenCount(f)
            /\ At(mean_, f) = ColMean(Data, f)
            /\ Truthy(with_std) => At(var_, f) = ColVar(Data, f)

\* C2: partial_fit(A) then partial_fit(B) on a fresh estimator ends with the
\* same (mean_, var_, n_samples_seen_) as partial_fit(B) then partial_fit(A).
C2_OrderIndependent ==
    (StatPath /\ AllReturned /\ ncalls = 2) =>
        LET o == FitAll(Fresh(epsilon, "set", with_mean, with_std),
                        <<history[2], history[1]>>)
        IN  /\ mean_ = o.mean_
            /\ var_ = o.var_
            /\ n_samples_seen_ = o.n_samples_seen_

\* C3: a feature entirely missing in one batch and fully observed in the other
\* (either order) ends with the count, mean and variance of the observed
\* entries only.
C3_MissingBatchIgnored ==
    (StatPath /\ AllReturned /\ ncalls = 2) =>
        \A f \in Features : \A i \in 1..2 :
            LET A == history[i]
                B == history[3 - i]
            IN  (new_sample_count(A, f) = 0 /\ new_sample_count(B, f) = Len(B)) =>
                    /\ CountAt(f) = Len(B)
                    /\ At(mean_, f) = ColMean(B, f)
                    /\ Truthy(with_std) => At(var_, f) = ColVar(B, f)

\* a <= b for finite a and b
FLeq(a, b) == a.n * b.d <= b.n * a.d

RECURSIVE FSum(_)
\* the sum of a sequence of numbers
FSum(xs) == IF Len(xs) = 0 THEN F(0, 1) ELSE FAdd(Head(xs), FSum(Tail(xs)))

\* the privacy budget the latest call handed to the statistic source
Charged == FAdd(FSum(call.mean_eps), FSum(call.var_eps))

\* the latest call passed validation
PastValidation == call.outcome \in {"ok", "source_error"}

\* C4: with with_std=True every partial_fit invokes the privatized mean with
\* exactly half of epsilon and the privatized variance with the other half;
\* one call charges epsilon in total and never more.
C4_BudgetSplit ==
    (Truthy(with_std) /\ PastValidation) =>
        /\ Len(call.mean_eps) = 1
        /\ FMul(call.mean_eps[1], F(2, 1)) = epsilon
        /\ \A i \in 1..Len(call.var_eps) :
               FAdd(call.mean_eps[1], call.var_eps[i]) = epsilon
        /\ FLeq(Charged, epsilon)
        /\ call.outcome = "ok" => (Len(call.var_eps) = 1 /\ Charged = epsilon)

\* C4 witness: a second successful call with variance tracking
C4_Witness ==
    /\ Truthy(with_std) /\ call.outcome = "ok" /\ Len(history) = 2
    /\ Len(call.var_eps) = 1

\* C5: with with_std False and with_mean True, partial_fit invokes the
\* privatized mean with the full epsilon.
C5_FullEpsilonWithoutStd ==
    (with_std = "False" /\ with_mean /\ PastValidation) => call.mean_eps = <<epsilon>>

\* C6: n_samples_seen_ is a scalar exactly when every feature has the same
\* cumulative non-missing count, and then equals it; otherwise it is the
\* vector of the per-feature cumulative counts.
C6_CountRepresentation ==
    n_samples_seen_.t # "absent" =>
        /\ n_samples_seen_.t = "scalar" <=> \A f \in Features : SeenCount(f) = SeenCount(1)
        /\ \A f \in Features : CountAt(f) = SeenCount(f)

\* the observed entries of feature f are all the same value, and there is one
ConstantFeature(f) ==
    /\ SeenCount(f) >= 1
    /\ \E c \in Cells : \A i \in 1..Len(Data) : IsNaN(Data[i][f]) \/ Data[i][f] = c

\* C7: with with_std enabled, a feature whose observed values are the same
\* constant in every batch ends with var_ 0 and scale_ 1.
C7_ConstantFeature ==
    (Truthy(with_std) /\ AllReturned /\ ncalls >= 1) =>
        \A f \in Features :
            ConstantFeature(f) => (IsZero(At(var_, f)) /\ At(scale_, f) = F(1, 1))

\* C8: a partial_fit call that fails (rejected batch, or the statistic source
\* raising) leaves mean_, var_, scale_ and n_samples_seen_ as they were.
C8_FailureAtomic ==
    [][(ncalls' = ncalls + 1 /\ call'.outcome \in {"invalid", "source_error"})
          => attrs' = attrs]_vars

\* C9: a batch rejected by validation changes no attribute and causes no
\* invocation of the privatized mean or variance.
C9_ValidationFirst ==
    [][(ncalls' = ncalls + 1 /\ call'.outcome = "invalid")
          => (attrs' = attrs /\ call'.mean_eps = << >> /\ call'.var_eps = << >>)]_vars

\* C9 witness: a batch is rejected on an estimator that already holds statistics
C9_Witness ==
    call.outcome = "invalid" /\ mean_.t = "vector" /\ Len(history) >= 1

\* C10: after a partial_fit on the statistic path, a feature with zero total
\* observations has a non-numeric mean_, never zero or another finite number.
C10_ZeroCountMeanNaN ==
    (StatPath /\ call.outcome = "ok") =>
        \A f \in Features : SeenCount(f) = 0 => IsNaN(At(mean_, f))

\* C10 witness: after two calls one feature has no observation, another has some
C10_Witness ==
    /\ StatPath /\ call.outcome = "ok" /\ Len(history) = 2
    /\ \E f, g \in Features : SeenCount(f) = 0 /\ SeenCount(g) > 0

\* the count of feature f before a call (zero while n_samples_seen_ is not set)
PriorCount(f) == IF n_samples_seen_.t = "absent" THEN 0 ELSE CountAt(f)

\* the batch of the latest call that returned
LastBatch == history[Len(history)]

\* an attribute that holds no value: None, or not set yet
Unset(a) == a.t \in {"absent", "None"}

\* C11: with with_mean and with_std both disabled, every partial_fit call
\* invokes neither the privatized mean nor the privatized variance, leaves
\* mean_, var_ and scale_ None, and only advances each feature's count by the
\* number of non-missing entries of that feature in the batch.
C11_CountOnly ==
    [][(ncalls' = ncalls + 1 /\ ~with_mean /\ ~Truthy(with_std)) =>
          /\ call'.mean_eps = << >> /\ call'.var_eps = << >>
          /\ Unset(mean_') /\ Unset(var_') /\ Unset(scale_')
          /\ call'.outcome \in {"ok", "invalid"}
          /\ call'.outcome = "invalid" => attrs' = attrs
          /\ call'.outcome = "ok" =>
                /\ mean_' = None /\ var_' = None /\ scale_' = None
                /\ \A f \in Features :
                      CountAt(f)' = PriorCount(f) + new_sample_count(LastBatch', f)]_vars

\* C11 witness: two count-only calls whose batches miss entries unevenly
C11_Witness ==
    /\ ~with_mean /\ ~Truthy(with_std) /\ call.outcome = "ok" /\ Len(history) = 2
    /\ n_samples_seen_.t = "vector" /\ mean_ = None
    /\ \E f \in Features : new_sample_count(LastBatch, f) < Len(LastBatch)

\* C12 as stated: in every partial_fit call the privatized mean and variance
\* are invoked at most once each; on the statistic path the mean is invoked
\* exactly once, and the variance exactly once if variance tracking is enabled
\* and not at all otherwise.
C12_AsStated ==
    /\ Len(call.mean_eps) <= 1 /\ Len(call.var_eps) <= 1
    /\ (StatPath /\ PastValidation) =>
          /\ Len(call.mean_eps) = 1
          /\ Len(call.var_eps) = IF Truthy(with_std) THEN 1 ELSE 0

\* C12: in every partial_fit call the privatized mean and variance are invoked
\* at most once each; on the statistic path the mean is invoked exactly once,
\* and the variance exactly once if variance tracking is enabled and the mean
\* invocation returned, and not at all otherwise.
C12_InvocationCounts ==
    /\ Len(call.mean_eps) <= 1 /\ Len(call.var_eps) <= 1
    /\ (StatPath /\ PastValidation) =>
          /\ Len(call.mean_eps) = 1
          /\ Len(call.var_eps) =
                IF Truthy(with_std) /\ call.outcome = "ok" THEN 1 ELSE 0

\* C12 witness: a second call on the statistic path without variance tracking
C12_Witness ==
    /\ with_mean /\ ~Truthy(with_std) /\ call.outcome = "ok" /\ Len(history) = 2
    /\ Len(call.mean_eps) = 1 /\ Len(call.var_eps) = 0

\* C13: in the variance merge, a feature with a positive prior count for
\* which the new batch has no non-missing entry keeps its unnormalized
\* variance, so its var_ is unchanged by the call.
C13_EmptyBatchKeepsVariance ==
    [][(ncalls' = ncalls + 1 /\ call'.outcome = "ok" /\ Truthy(with_std)
          /\ var_.t = "vector") =>
          \A f \in Features :
              (PriorCount(f) > 0 /\ new_sample_count(LastBatch', f) = 0) =>
                  At(var_', f) = At(var_, f)]_vars

\* C14: in the variance merge a feature whose prior count is zero gets the new
\* batch's unnormalized variance, the correction term being discarded; hence
\* after the first call of a fresh estimator a non-empty feature has the
\* batch's privatized variance as var_ and its privatized mean as mean_.
C14_ZeroPriorCount ==
    [][(ncalls' = ncalls + 1 /\ call'.outcome = "ok" /\ StatPath) =>
          \A f \in Features :
              LET X == LastBatch'
                  n == F(new_sample_count(X, f), 1)
              IN  /\ (Truthy(with_std) /\ PriorCount(f) = 0) =>
                        At(var_', f) = FDiv(FMul(ColVar(X, f), n), n)
                  /\ (Len(history') = 1 /\ new_sample_count(X, f) > 0) =>
                        /\ At(mean_', f) = ColMean(X, f)
                        /\ Truthy(with_std) => At(var_', f) = ColVar(X, f)]_vars

\* C14 witness: a feature missing from the first batch takes the variance 1/4
\* of the second batch, whose two entries differ
C14_Witness ==
    /\ Truthy(with_std) /\ call.outcome = "ok" /\ Len(history) = 2
    /\ \E f \in Features :
          /\ new_sample_count(history[1], f) = 0
          /\ new_sample_count(history[2], f) = 2
          /\ At(var_, f) = F(1, 4)

\* an attribute that holds a value
Present(a) == a.t \in {"scalar", "vector"}

\* C15: after one or more successful partial_fit calls var_ is present iff
\* with_std is enabled, and with with_std enabled mean_ is present even if
\* with_mean is False.
C15_VariancePresence ==
    Len(history) >= 1 =>
        /\ Present(var_) <=> Truthy(with_std)
        /\ Truthy(with_std) => (mean_.t = "vector" /\ var_.t = "vector")

\* C15 witness: mean_ is kept over two calls with with_mean False, with_std True
C15_Witness ==
    /\ Len(history) = 2 /\ ~with_mean /\ Truthy(with_std)
    /\ mean_.t = "vector" /\ var_.t = "vector"

\* the estimator that processed the batches of the returned calls and made no
\* other call
Replay == FitAll(Fresh(epsilon, "set", with_mean, with_std), history)

\* C16: when a call failed inside the statistic source and later calls
\* succeeded, mean_, var_, scale_ and n_samples_seen_ equal those of an
\* estimator that processed the same successful batches without the failed call.
C16_FailedCallLeavesNoTrace ==
    (Len(source_errors) >= 1 /\ call.outcome = "ok") =>
        /\ mean_ = Replay.mean_
        /\ var_ = Replay.var_
        /\ scale_ = Replay.scale_
        /\ n_samples_seen_ = Replay.n_samples_seen_

\* C16 witness: a call fails in the source between two calls that return, on
\* an estimator whose count was a scalar
C16_Witness ==
    /\ call.outcome = "ok" /\ Len(history) = 2 /\ source_errors = <<1>>
    /\ Present(mean_) /\ \A f \in Features : new_sample_count(history[1], f) = 1

====
